---- MODULE Spec2Model ----
(***************************************************************************)
(* Model of src/mmu.cc: the VMA tracker (vma_list), the four-level page    *)
(* table built by populate, and the mapping entry points.                  *)
(*                                                                         *)
(* Addresses are machine words.  The source uses 64-bit words with the     *)
(* upper sentinel at 2^47 and the mmap base at 2^45; the model keeps the   *)
(* page size (4096) and scales the word: the upper sentinel sits at        *)
(* UpperPages pages, the mmap base at a quarter of that, and the word      *)
(* wraps at AddrSpace = HighPages pages above the upper sentinel.  All     *)
(* address arithmetic is modulo AddrSpace, as uintptr_t arithmetic is      *)
(* modulo 2^64.                                                            *)
(***************************************************************************)
EXTENDS Integers, Sequences, FiniteSets, TLC

VARIABLES vma_list, pt, next_page, mem, pc, call, walk, mutex

vars == <<vma_list, pt, next_page, mem, pc, call, walk, mutex>>

(***************************************************************************)
(* Bounds of the model.                                                    *)
(***************************************************************************)
UpperPages == 4      \* pages below the upper sentinel
HighPages == 3       \* pages between the upper sentinel and the word's wrap
MaxVmas == 4         \* calls are issued while the tracker has fewer entries
MaxPhys == 6         \* pages the physical allocator can hand out
MaxByte == 1         \* memory bytes range over 0..MaxByte
MaxFile == 2         \* longest backing file, in bytes
MemLen == 2          \* bytes of memory observed by the file-mapping runs

page_size == 4096

upper_edge == UpperPages * page_size

mmap_base == (UpperPages \div 4) * page_size

AddrSpace == upper_edge + HighPages * page_size

Add(a, b) == (a + b) % AddrSpace

Sub(a, b) == (a - b + AddrSpace) % AddrSpace

Byte == 0 .. MaxByte

(***************************************************************************)
(* vma: constructor, align_down, align_up, split, and the ordered set.     *)
(***************************************************************************)
align_down(ptr) == ptr - (ptr % page_size)

align_up(ptr) == align_down(Add(ptr, page_size - 1))

vma(start, end) == [start |-> align_down(start), end |-> align_up(end)]

size_of(v) == Sub(v.end, v.start)

\* boost::intrusive::set<vma, compare by addr()>::insert: unique keys, an
\* element whose start is already present is not inserted.
HasKey(list, k) == \E j \in 1 .. Len(list) : list[j].start = k

InsertPos(list, k) == Cardinality({j \in 1 .. Len(list) : list[j].start < k})

insert(list, v) ==
    IF HasKey(list, v.start) THEN list
    ELSE LET n == InsertPos(list, v.start)
         IN  SubSeq(list, 1, n) \o <<v>> \o SubSeq(list, n + 1, Len(list))

erase(list, i) == SubSeq(list, 1, i - 1) \o SubSeq(list, i + 1, Len(list))

Elements(list) == {list[j] : j \in 1 .. Len(list)}

\* vma_list_type(): the two markers for the edges of the allocatable area.
vma_list_type == insert(insert(<<>>, vma(0, 0)), vma(upper_edge, upper_edge))

\* vma::split(edge) on the element at position i.
split(list, i, edge) ==
    IF edge <= list[i].start \/ edge >= list[i].end THEN list
    ELSE LET n == vma(edge, list[i].end)
             shrunk == [list EXCEPT ![i].end = edge]
         IN  insert(shrunk, n)

contains(x, y) == y.start >= x.start /\ y.end <= x.end

(***************************************************************************)
(* find_hole: scan of adjacent pairs (p, n); Abort stands for abort().     *)
(***************************************************************************)
Abort == 0 - 1

RECURSIVE find_hole_from(_, _, _, _)
find_hole_from(list, p, start, size) ==
    IF p + 1 > Len(list) THEN Abort
    ELSE IF start >= list[p].end /\ Add(start, size) <= list[p + 1].start
         THEN start
    ELSE IF list[p].end >= start
            /\ Sub(list[p + 1].start, list[p].end) >= size
         THEN list[p].end
    ELSE find_hole_from(list, p + 1, start, size)

find_hole(list, start, size) == find_hole_from(list, 1, start, size)

(***************************************************************************)
(* evacuate: one pass of the loop body for the iterator at position i.     *)
(* i starts at std::next(begin()) = 2 and the loop runs while i is not     *)
(* std::prev(end()), the last position of the current list.                *)
(***************************************************************************)
evacuate_body(list, i, v) ==
    LET l1 == split(list, i, v.end)
        l2 == split(l1, i, v.start)
    IN  IF contains(v, l2[i])
        THEN [list |-> erase(l2, i), i |-> i]      \* i--, erase, ++i
        ELSE [list |-> l2, i |-> i + 1]

(***************************************************************************)
(* Page table.  Physical memory is identity-addressed (phys_cast), so a    *)
(* table is named by its page address.  pt maps <<table, index>> to the    *)
(* entry stored there; a pair outside its domain holds 0.  The allocator   *)
(* hands out the pages PoolBase + k * page_size in order; page 0 of the    *)
(* pool is the root table that cr3 points to.                              *)
(***************************************************************************)
PoolBase == 256 * page_size

read_cr3 == PoolBase

nlevels == 4

PtRead(t, tbl, idx) == IF <<tbl, idx>> \in DOMAIN t THEN t[<<tbl, idx>>] ELSE 0

PtWrite(t, tbl, idx, val) ==
    IF val = 0
    THEN [x \in DOMAIN t \ {<<tbl, idx>>} |-> t[x]]
    ELSE [x \in DOMAIN t \cup {<<tbl, idx>>} |->
             IF x = <<tbl, idx>> THEN val ELSE t[x]]

RECURSIVE BitOr(_, _)
BitOr(a, b) ==
    IF a = 0 THEN b
    ELSE IF b = 0 THEN a
    ELSE (IF a % 2 = 1 \/ b % 2 = 1 THEN 1 ELSE 0)
         + 2 * BitOr(a \div 2, b \div 2)

pt_index(virt, level) == ((virt \div page_size) \div (512 ^ level)) % 512

pte_phys(pte) == (pte \div page_size) * page_size

pte_present(pte) == pte % 2 = 1

pte_large(pte) == (pte \div 128) % 2 = 1

make_pte(addr) == BitOr(addr, 99)

\* memory::alloc_page(): the next unused page of the pool, or failure when
\* the pool is exhausted (fatal for the caller).
alloc_page(st) ==
    IF st.next >= MaxPhys
    THEN [st EXCEPT !.ok = FALSE]
    ELSE [st EXCEPT !.next = st.next + 1,
                    !.page = PoolBase + (st.next + 1) * page_size]

\* allocate_intermediate_level(ptep) with ptep = &tbl[idx].
allocate_intermediate_level(st, tbl, idx) ==
    LET a == alloc_page(st)
    IN  IF ~a.ok THEN a
        ELSE LET zeroed == [x \in {y \in DOMAIN a.pt : y[1] # a.page} |-> a.pt[x]]
             IN  [a EXCEPT !.pt = PtWrite(zeroed, tbl, idx, BitOr(a.page, 99))]

\* The loop of split_large_page: pt[i] = pte_orig | (i << (12 + 9 * (level - 1)))
\* for i = 0 .. 511, with stride = 1 << (12 + 9 * (level - 1)).
split_entry(pte_orig, stride, i) == BitOr(pte_orig, i * stride)

fill_split(t, tbl, pte_orig, stride) ==
    [x \in {y \in DOMAIN t : y[1] # tbl}
              \cup {<<tbl, i>> : i \in {j \in 0 .. 511 : split_entry(pte_orig, stride, j) # 0}}
        |-> IF x[1] = tbl THEN split_entry(pte_orig, stride, x[2]) ELSE t[x]]

\* split_large_page that leaves the large bit in the entries it writes at
\* level 1.
split_large_page_keeps_large(st, tbl, idx, level) ==
    LET pte_orig == PtRead(st.pt, tbl, idx)
        a == allocate_intermediate_level(st, tbl, idx)
    IN  IF ~a.ok THEN a
        ELSE [a EXCEPT !.pt = fill_split(a.pt, pte_phys(PtRead(a.pt, tbl, idx)),
                                         pte_orig,
                                         page_size * (512 ^ (level - 1)))]

\* split_large_page(ptep, level) with ptep = &tbl[idx].
split_large_page(st, tbl, idx, level) ==
    LET orig == PtRead(st.pt, tbl, idx)
        pte_orig == IF level = 1 /\ pte_large(orig) THEN orig - 128 ELSE orig
        a == allocate_intermediate_level(st, tbl, idx)
    IN  IF ~a.ok THEN a
        ELSE [a EXCEPT !.pt = fill_split(a.pt, pte_phys(PtRead(a.pt, tbl, idx)),
                                         pte_orig,
                                         page_size * (512 ^ (level - 1)))]

\* populate_page(addr): the walk from level nlevels - 1 down to the leaf.
RECURSIVE populate_walk(_, _, _, _)
\* populate_walk that allocates a new level-1 entry's table whether or not
\* the entry is present.
populate_walk_realloc(st, tbl, level, addr) ==
    LET idx == pt_index(addr, level)
    IN  IF ~st.ok THEN st
        ELSE IF level = 0
        THEN LET a == alloc_page(st)
             IN  IF ~a.ok THEN a
                 ELSE [a EXCEPT !.pt = PtWrite(a.pt, tbl, idx, make_pte(a.page))]
        ELSE LET s1 == IF level = 1 \/ ~pte_present(PtRead(st.pt, tbl, idx))
                       THEN allocate_intermediate_level(st, tbl, idx)
                       ELSE IF pte_large(PtRead(st.pt, tbl, idx))
                       THEN split_large_page(st, tbl, idx, level)
                       ELSE st
             IN  IF ~s1.ok THEN s1
                 ELSE populate_walk(s1, pte_phys(PtRead(s1.pt, tbl, idx)),
                                    level - 1, addr)

populate_walk(st, tbl, level, addr) ==
    LET idx == pt_index(addr, level)
    IN  IF ~st.ok THEN st
        ELSE IF level = 0
        THEN LET a == alloc_page(st)
             IN  IF ~a.ok THEN a
                 ELSE [a EXCEPT !.pt = PtWrite(a.pt, tbl, idx, make_pte(a.page))]
        ELSE LET s1 == IF ~pte_present(PtRead(st.pt, tbl, idx))
                       THEN allocate_intermediate_level(st, tbl, idx)
                       ELSE IF pte_large(PtRead(st.pt, tbl, idx))
                       THEN split_large_page(st, tbl, idx, level)
                       ELSE st
             IN  IF ~s1.ok THEN s1
                 ELSE populate_walk(s1, pte_phys(PtRead(s1.pt, tbl, idx)),
                                    level - 1, addr)

populate_page(st, addr) == populate_walk(st, pte_phys(read_cr3), nlevels - 1, addr)

\* populate(vma): addr runs from vma.addr() while addr < vma.addr() +
\* vma.size(), which is vma.end() in word arithmetic.
RECURSIVE populate_from(_, _, _)
populate_from(st, addr, end) ==
    IF ~st.ok \/ ~(addr < end) THEN st
    ELSE populate_from(populate_page(st, addr), addr + page_size, end)

\* populate whose loop starts one page late.
populate_skips_first(st, v) ==
    populate_from(st, v.start + page_size, Add(v.start, size_of(v)))

populate(st, v) == populate_from(st, v.start, Add(v.start, size_of(v)))

\* The translation the page table gives a virtual address: the leaf page, or
\* Abort when the walk meets a non-present entry (a page fault).
RECURSIVE translate_walk(_, _, _, _)
translate_walk(t, tbl, level, addr) ==
    LET pte == PtRead(t, tbl, pt_index(addr, level))
    IN  IF ~pte_present(pte) THEN Abort
        ELSE IF level = 0 THEN pte_phys(pte)
        ELSE IF pte_large(pte)
        THEN pte_phys(pte) + (addr % (page_size * (512 ^ level)))
        ELSE translate_walk(t, pte_phys(pte), level - 1, addr)

translate(t, addr) == translate_walk(t, pte_phys(read_cr3), nlevels - 1, addr)

\* The writable and the user bit of an entry (bits 1 and 2).
pte_writable(pte) == (pte \div 2) % 2 = 1

pte_user(pte) == (pte \div 4) % 2 = 1

RECURSIVE BitAnd(_, _)
BitAnd(a, b) ==
    IF a = 0 \/ b = 0 THEN 0
    ELSE (IF a % 2 = 1 /\ b % 2 = 1 THEN 1 ELSE 0)
         + 2 * BitAnd(a \div 2, b \div 2)

\* The access rights the page table gives a virtual address: the present,
\* writable and user bits (bits 0, 1, 2) of every entry of the walk, combined
\* by AND; 0 when the walk meets a non-present entry.
RECURSIVE effective_walk(_, _, _, _)
effective_walk(t, tbl, level, addr) ==
    LET pte == PtRead(t, tbl, pt_index(addr, level))
    IN  IF ~pte_present(pte) THEN 0
        ELSE IF level = 0 \/ pte_large(pte) THEN pte % 8
        ELSE BitAnd(pte % 8, effective_walk(t, pte_phys(pte), level - 1, addr))

effective_flags(t, addr) ==
    effective_walk(t, pte_phys(read_cr3), nlevels - 1, addr)

(***************************************************************************)
(* Memory contents.  mem gives the byte at each observed virtual address   *)
(* (its domain is fixed by the initial state).  A store to a page that the *)
(* page table does not translate, or beyond the end of the word, is a page *)
(* fault, and page_fault() aborts; the bytes below the faulting page have  *)
(* been written by then.                                                   *)
(***************************************************************************)
TouchedPages(addr, n) ==
    IF n = 0 THEN {}
    ELSE {k * page_size : k \in (addr \div page_size) .. ((addr + n - 1) \div page_size)}

Faulting(t, addr, n) ==
    {p \in TouchedPages(addr, n) : p >= AddrSpace \/ translate(t, p) = Abort}

FirstFault(t, addr, n) ==
    IF Faulting(t, addr, n) = {} THEN addr + n
    ELSE CHOOSE p \in Faulting(t, addr, n) : \A q \in Faulting(t, addr, n) : p <= q

memset(t, m, addr, c, n) ==
    [x \in DOMAIN m |->
        IF addr <= x /\ x < addr + n /\ x < FirstFault(t, addr, n) THEN c ELSE m[x]]

\* file::read(buffer, offset, length): copies file bytes offset .. offset +
\* length - 1 to the buffer.
file_read(t, m, addr, f, offset, n) ==
    [x \in DOMAIN m |->
        IF addr <= x /\ x < addr + n /\ x < FirstFault(t, addr, n)
           /\ offset + (x - addr) < Len(f)
        THEN f[offset + (x - addr) + 1] ELSE m[x]]

\* The observed addresses whose page populate has pointed at another
\* physical page.
remapped(m, t0, t1) ==
    {x \in DOMAIN m : translate(t1, align_down(x)) # translate(t0, align_down(x))}

\* A remapped page shows the contents of its fresh physical page, which are
\* arbitrary (g).
fresh_contents(m, g, fresh) == [x \in DOMAIN m |-> IF x \in fresh THEN g[x] ELSE m[x]]

Min(a, b) == IF a <= b THEN a ELSE b

(***************************************************************************)
(* State machine.  pc is the position of the single thread of control:     *)
(* "idle" between calls, "evacuate" inside the loop of evacuate, "done"    *)
(* when a call has returned (call then holds its arguments, the tracker    *)
(* as it was at the call, and the result), "aborted" after abort().        *)
(***************************************************************************)
NoVma == [start |-> 0, end |-> 0]

NoCall ==
    [op |-> "none", a |-> 0, b |-> 0, off |-> 0, f |-> <<>>,
     target |-> NoVma, i |-> 0, pre |-> <<>>, ret |-> NoVma, hole |-> 0,
     log |-> <<>>]

\* The threads that may run populate_page, and the position of each in it:
\* "idle" outside the function, "test" before the tests of *ptep in the loop,
\* "modify" before allocate_intermediate_level or split_large_page, "descend"
\* before pte = *ptep, "leaf" before the last line.  tables records the
\* intermediate tables the thread has allocated, as <<table, index, page,
\* level>>: the entry rewritten, the page allocated, the level of the entry.
Threads == {1, 2}

NoWalk ==
    [pc |-> "idle", addr |-> 0, level |-> 0, tbl |-> 0, seen |-> "none",
     tables |-> {}]

NoWalks == [t \in Threads |-> NoWalk]

TypeOK ==
    /\ pc \in {"idle", "evacuate", "done", "aborted"}
    /\ next_page \in 0 .. MaxPhys
    /\ \A j \in 1 .. Len(vma_list) : vma_list[j] \in [start : Nat, end : Nat]

\* reserve(hint, size)
reserve(hint, size) ==
    /\ pc = "idle"
    /\ Len(vma_list) < MaxVmas
    /\ LET start == IF hint = 0 THEN mmap_base ELSE hint
           hole == find_hole(vma_list, start, size)
           v == vma(hole, Add(hole, size))
           c == [NoCall EXCEPT !.op = "reserve", !.a = hint, !.b = size,
                               !.pre = vma_list, !.hole = hole]
       IN  IF hole = Abort
           THEN /\ pc' = "aborted"
                /\ call' = c
                /\ UNCHANGED vma_list
           ELSE /\ pc' = "done"
                /\ call' = [c EXCEPT !.ret = v]
                /\ vma_list' = insert(vma_list, v)
    /\ UNCHANGED <<pt, next_page, mem, walk, mutex>>

\* Entry of a call that runs evacuate(target).
enter_evacuate(op, a, b, off, f, target) ==
    /\ pc = "idle"
    /\ Len(vma_list) < MaxVmas
    /\ pc' = "evacuate"
    /\ call' = [NoCall EXCEPT !.op = op, !.a = a, !.b = b, !.off = off, !.f = f,
                              !.target = target, !.i = 2, !.pre = vma_list,
                              !.ret = target]
    /\ UNCHANGED <<vma_list, pt, next_page, mem, walk, mutex>>

\* unmap(addr, size): vma tmp { addr, size }; evacuate(&tmp)
unmap(addr, size) == enter_evacuate("unmap", addr, size, 0, <<>>, vma(addr, size))

\* map_anon_dontzero(start, end, perm): ret = new vma(start, end); evacuate(ret)
map_anon_dontzero(start, end) ==
    enter_evacuate("map_anon_dontzero", start, end, 0, <<>>, vma(start, end))

\* map_anon(addr, size, perm)
map_anon(addr, size) ==
    enter_evacuate("map_anon", addr, size, 0, <<>>, vma(addr, Add(addr, size)))

\* map_file(addr, size, perm, f, offset)
map_file(addr, size, f, offset) ==
    enter_evacuate("map_file", addr, size, offset, f, vma(addr, Add(addr, size)))

\* What one iteration of evacuate did, for the record kept in call.log: the
\* VMA the iterator was at, how many of the two splits cut it, and the VMAs
\* the splits inserted.
iteration(list, i, v) ==
    LET l1 == split(list, i, v.end)
        l2 == split(l1, i, v.start)
    IN  [v |-> list[i],
         cut |-> (IF l1[i] # list[i] THEN 1 ELSE 0) + (IF l2[i] # l1[i] THEN 1 ELSE 0),
         made |-> Elements(l2) \ (Elements(list) \cup {l1[i], l2[i]})]

\* evacuate: one iteration of the for loop.
evacuate_loop ==
    /\ pc = "evacuate"
    /\ call.i # Len(vma_list)
    /\ LET r == evacuate_body(vma_list, call.i, call.target)
       IN  /\ vma_list' = r.list
           /\ call' = [call EXCEPT !.i = r.i,
                                   !.log = Append(@, iteration(vma_list, call.i,
                                                               call.target))]
    /\ UNCHANGED <<pt, next_page, mem, pc, walk, mutex>>

\* unmap_return that hands the page taken last back to the allocator.
unmap_return_reclaims ==
    /\ pc = "evacuate"
    /\ call.i = Len(vma_list)
    /\ call.op = "unmap"
    /\ pc' = "done"
    /\ next_page' = IF next_page > 0 THEN next_page - 1 ELSE 0
    /\ UNCHANGED <<vma_list, pt, mem, call, walk, mutex>>

\* unmap returns once the loop of evacuate ends.
unmap_return ==
    /\ pc = "evacuate"
    /\ call.i = Len(vma_list)
    /\ call.op = "unmap"
    /\ pc' = "done"
    /\ UNCHANGED <<vma_list, pt, next_page, mem, call, walk, mutex>>

\* The rest of map_anon_dontzero after evacuate: vma_list.insert(*ret);
\* populate(*ret).
insert_and_populate ==
    populate([pt |-> pt, next |-> next_page, ok |-> TRUE, page |-> 0], call.target)

\* written_contents without the memset of the remainder after the file bytes.
written_contents_no_tail(t, m) ==
    IF call.op = "map_anon_dontzero" THEN m
    ELSE IF call.op = "map_anon" \/ call.off >= Len(call.f)
    THEN memset(t, m, call.a, 0, call.b)
    ELSE file_read(t, m, call.a, call.f, call.off,
                   Sub(Min(Add(call.off, call.b), Len(call.f)), call.off))

\* The contents written after map_anon_dontzero returned, by map_anon
\* (memset) and map_file (read, then memset of the remainder).
written_contents(t, m) ==
    IF call.op = "map_anon_dontzero" THEN m
    ELSE IF call.op = "map_anon" \/ call.off >= Len(call.f)
    THEN memset(t, m, call.a, 0, call.b)
    ELSE LET rsize == Sub(Min(Add(call.off, call.b), Len(call.f)), call.off)
             m1 == file_read(t, m, call.a, call.f, call.off, rsize)
         IN  IF FirstFault(t, call.a, rsize) < call.a + rsize THEN m1
             ELSE memset(t, m1, call.a + rsize, 0, Sub(call.b, rsize))

write_faults(t) ==
    IF call.op = "map_anon_dontzero" THEN FALSE
    ELSE IF call.op = "map_anon" \/ call.off >= Len(call.f)
    THEN Faulting(t, call.a, call.b) # {}
    ELSE LET rsize == Sub(Min(Add(call.off, call.b), Len(call.f)), call.off)
         IN  \/ Faulting(t, call.a, rsize) # {}
             \/ Faulting(t, call.a + rsize, Sub(call.b, rsize)) # {}

map_return ==
    /\ pc = "evacuate"
    /\ call.i = Len(vma_list)
    /\ call.op \in {"map_anon_dontzero", "map_anon", "map_file"}
    /\ \E st \in {insert_and_populate} :
          /\ vma_list' = insert(vma_list, call.target)
          /\ pt' = st.pt
          /\ next_page' = st.next
          /\ \E fresh \in {remapped(mem, pt, st.pt)} :
                \E g \in [fresh -> Byte] :
                    mem' = IF st.ok
                           THEN written_contents(st.pt, fresh_contents(mem, g, fresh))
                           ELSE fresh_contents(mem, g, fresh)
          /\ pc' = IF st.ok /\ ~write_faults(st.pt) THEN "done" ELSE "aborted"
    /\ UNCHANGED <<call, walk, mutex>>

\* The caller takes the result and the thread is free for the next call.
next_call ==
    /\ pc = "done"
    /\ pc' = "idle"
    /\ call' = NoCall
    /\ UNCHANGED <<vma_list, pt, next_page, mem, walk, mutex>>

(***************************************************************************)
(* Spec: every entry point, with addresses and sizes over the whole word.  *)
(***************************************************************************)
\* Arguments: page-aligned and unaligned addresses below, at and above the
\* upper sentinel, up to the last page of the word; sizes from zero up.
ReserveHints == {0, 1, page_size, AddrSpace - page_size}

ReserveSizes == {0, page_size, 2 * page_size}

UnmapAddrs == {0, page_size, 2 * page_size, upper_edge}

UnmapSizes == {page_size, 2 * page_size + 1, upper_edge, upper_edge + 2 * page_size}

MapStarts == {0, page_size + 1, upper_edge - page_size, upper_edge, upper_edge + page_size}

MapEnds == {page_size, 3 * page_size - 1, upper_edge + page_size, upper_edge + 2 * page_size}

AnonSizes == {0, 1, page_size + 1}

Init ==
    /\ vma_list = vma_list_type
    /\ pt = << >>
    /\ next_page = 0
    /\ mem = << >>
    /\ pc = "idle"
    /\ call = NoCall
    /\ walk = NoWalks
    /\ mutex = "off"

Next ==
    \/ \E hint \in ReserveHints, size \in ReserveSizes : reserve(hint, size)
    \/ \E addr \in UnmapAddrs, size \in UnmapSizes : unmap(addr, size)
    \/ \E start \in MapStarts, end \in MapEnds : map_anon_dontzero(start, end)
    \/ \E size \in AnonSizes : map_anon(page_size, size)
    \/ \E f \in {<<>>, <<1>>} : map_file(page_size, 1, f, 0)
    \/ evacuate_loop
    \/ unmap_return
    \/ map_return
    \/ next_call

Spec == Init /\ [][Next]_vars

(***************************************************************************)
(* SpecFile: file-backed mappings over an observed window of memory, the   *)
(* MemLen bytes from MemBase on, with every file of up to MaxFile bytes.   *)
(***************************************************************************)
MemBase == page_size

MemWindow == MemBase .. MemBase + MemLen - 1

RECURSIVE SeqsUpTo(_, _)
SeqsUpTo(S, n) ==
    IF n = 0 THEN {<< >>}
    ELSE SeqsUpTo(S, n - 1)
             \cup {Append(q, b) : q \in {r \in SeqsUpTo(S, n - 1) : Len(r) = n - 1}, b \in S}

Files == SeqsUpTo(Byte, MaxFile)

\* The allocator has already handed out all but FilePages pages of its pool
\* to the rest of the kernel.
FilePages == 5

InitFile ==
    /\ vma_list = vma_list_type
    /\ pt = << >>
    /\ next_page = MaxPhys - FilePages
    /\ mem = [x \in MemWindow |-> 0]
    /\ pc = "idle"
    /\ call = NoCall
    /\ walk = NoWalks
    /\ mutex = "off"

NextFile ==
    \/ \E size \in 0 .. MemLen, f \in Files, offset \in 0 .. MaxFile :
          map_file(MemBase, size, f, offset)
    \/ evacuate_loop
    \/ map_return
    \/ next_call

SpecFile == InitFile /\ [][NextFile]_vars

(***************************************************************************)
(* SpecUnmap: populated anonymous mappings below the upper sentinel and    *)
(* unmap calls over them.                                                  *)
(***************************************************************************)
PopulatedStarts == {page_size, 2 * page_size}

PopulatedEnds == {2 * page_size, 3 * page_size - 1}

NextUnmap ==
    \/ \E start \in PopulatedStarts, end \in PopulatedEnds : map_anon_dontzero(start, end)
    \/ \E addr \in UnmapAddrs, size \in UnmapSizes : unmap(addr, size)
    \/ evacuate_loop
    \/ unmap_return
    \/ map_return
    \/ next_call

SpecUnmap == Init /\ [][NextUnmap]_vars

(***************************************************************************)
(* SpecPt: the page-table walker on its own.  populate_page and populate   *)
(* are called on a page table that is empty or was set up at boot: the     *)
(* root's slot 0 points to BootL2, whose slot 0 points to BootL1 and whose *)
(* slot 1 is a large (1GB) entry; slot 0 of BootL1 is a large (2MB) entry. *)
(* The boot tables lie right below the allocator's pool.                   *)
(***************************************************************************)
BootL2 == PoolBase - page_size

BootL1 == PoolBase - 2 * page_size

\* The range an entry of the given level covers.
LevelSize(level) == page_size * (512 ^ level)

\* Flag bits of the boot entries, as <<intermediate, large leaf>>: kernel
\* read-write, kernel read-only, and user read-write mappings.
BootFlags == {<<99, 227>>, <<99, 225>>, <<103, 231>>}

boot_tables(fl) ==
    (<<pte_phys(read_cr3), 0>> :> BitOr(BootL2, fl[1]))
        @@ (<<BootL2, 0>> :> BitOr(BootL1, fl[1]))
        @@ (<<BootL2, 1>> :> BitOr(LevelSize(2), fl[2]))
        @@ (<<BootL1, 0>> :> BitOr(2 * LevelSize(1), fl[2]))

BootTables == {<< >>} \cup {boot_tables(fl) : fl \in BootFlags}

\* Addresses under the 2MB entry, beside it, and under the 1GB entry.
PtAddrs == {0, page_size, LevelSize(1), LevelSize(2) + LevelSize(1) + page_size}

PtStarts == {0}

PtEnds == {page_size, 2 * page_size}

\* A call of populate_page(addr).
call_populate_page(addr) ==
    /\ pc = "idle"
    /\ \E st \in {populate_page([pt |-> pt, next |-> next_page, ok |-> TRUE,
                                 page |-> 0], addr)} :
          /\ pt' = st.pt
          /\ next_page' = st.next
          /\ pc' = IF st.ok THEN "done" ELSE "aborted"
    /\ call' = [NoCall EXCEPT !.op = "populate_page", !.a = addr]
    /\ UNCHANGED <<vma_list, mem, walk, mutex>>

\* A call of populate(vma) with vma = vma(start, end).
call_populate(start, end) ==
    /\ pc = "idle"
    /\ \E st \in {populate([pt |-> pt, next |-> next_page, ok |-> TRUE,
                            page |-> 0], vma(start, end))} :
          /\ pt' = st.pt
          /\ next_page' = st.next
          /\ pc' = IF st.ok THEN "done" ELSE "aborted"
    /\ call' = [NoCall EXCEPT !.op = "populate", !.a = start, !.b = end,
                              !.target = vma(start, end)]
    /\ UNCHANGED <<vma_list, mem, walk, mutex>>

InitPt ==
    /\ vma_list = vma_list_type
    /\ pt \in BootTables
    /\ next_page = 0
    /\ mem = << >>
    /\ pc = "idle"
    /\ call = NoCall
    /\ walk = NoWalks
    /\ mutex = "off"

NextPt ==
    \/ \E addr \in PtAddrs : call_populate_page(addr)
    \/ \E start \in PtStarts, end \in PtEnds : call_populate(start, end)
    \/ next_call

SpecPt == InitPt /\ [][NextPt]_vars

(***************************************************************************)
(* SpecRace: populate_page run by two threads, one memory access of the    *)
(* walk per step.  mutex is the caller's discipline: "off" when the calls  *)
(* are not synchronized, otherwise "free" or "held": the one lock of the   *)
(* address space, which a thread holds for the duration of its call.       *)
(***************************************************************************)
RaceAddrs == {0, page_size, LevelSize(1)}

\* populate_page(addr), up to the loop: ptep = &pt[pt_index(addr, nlevels - 1)]
\* in the root table.
walk_begin(t, addr) ==
    /\ pc = "idle"
    /\ walk[t].pc = "idle"
    /\ mutex \in {"off", "free"}
    /\ mutex' = IF mutex = "off" THEN "off" ELSE "held"
    /\ walk' = [walk EXCEPT ![t].pc = "test", ![t].addr = addr,
                            ![t].level = nlevels - 1,
                            ![t].tbl = pte_phys(read_cr3)]
    /\ UNCHANGED <<vma_list, pt, next_page, mem, pc, call>>

\* walk_test that takes a present level-1 entry for an absent one.
walk_test_blind(t) ==
    /\ pc = "idle"
    /\ walk[t].pc = "test"
    /\ LET pte == PtRead(pt, walk[t].tbl, pt_index(walk[t].addr, walk[t].level))
       IN  walk' = [walk EXCEPT
                       ![t].seen = IF walk[t].level = 1 \/ ~pte_present(pte) THEN "absent"
                                   ELSE IF pte_large(pte) THEN "large"
                                   ELSE "table",
                       ![t].pc = IF walk[t].level = 1 \/ ~pte_present(pte) \/ pte_large(pte)
                                 THEN "modify" ELSE "descend"]
    /\ UNCHANGED <<vma_list, pt, next_page, mem, pc, call, mutex>>

\* The tests of the loop body: !pte_present(*ptep), else pte_large(*ptep).
walk_test(t) ==
    /\ pc = "idle"
    /\ walk[t].pc = "test"
    /\ LET pte == PtRead(pt, walk[t].tbl, pt_index(walk[t].addr, walk[t].level))
       IN  walk' = [walk EXCEPT
                       ![t].seen = IF ~pte_present(pte) THEN "absent"
                                   ELSE IF pte_large(pte) THEN "large"
                                   ELSE "table",
                       ![t].pc = IF ~pte_present(pte) \/ pte_large(pte)
                                 THEN "modify" ELSE "descend"]
    /\ UNCHANGED <<vma_list, pt, next_page, mem, pc, call, mutex>>

\* allocate_intermediate_level(ptep) or split_large_page(ptep, level), as the
\* test chose; a failed allocation is fatal.
walk_modify(t) ==
    /\ pc = "idle"
    /\ walk[t].pc = "modify"
    /\ LET idx == pt_index(walk[t].addr, walk[t].level)
           st0 == [pt |-> pt, next |-> next_page, ok |-> TRUE, page |-> 0]
       IN  \E st \in {IF walk[t].seen = "absent"
                      THEN allocate_intermediate_level(st0, walk[t].tbl, idx)
                      ELSE split_large_page(st0, walk[t].tbl, idx, walk[t].level)} :
              /\ pt' = st.pt
              /\ next_page' = st.next
              /\ pc' = IF st.ok THEN "idle" ELSE "aborted"
              /\ walk' = [walk EXCEPT
                             ![t].pc = "descend",
                             ![t].tables = IF st.ok
                                           THEN @ \cup {<<walk[t].tbl, idx, st.page, walk[t].level>>}
                                           ELSE @]
    /\ UNCHANGED <<vma_list, mem, call, mutex>>

\* pte = *ptep; --level; pt = phys_cast(pte_phys(pte)); ptep = &pt[pt_index(addr, level)]
walk_descend(t) ==
    /\ pc = "idle"
    /\ walk[t].pc = "descend"
    /\ LET pte == PtRead(pt, walk[t].tbl, pt_index(walk[t].addr, walk[t].level))
       IN  walk' = [walk EXCEPT ![t].level = @ - 1,
                                ![t].tbl = pte_phys(pte),
                                ![t].pc = IF walk[t].level - 1 > 0 THEN "test" ELSE "leaf"]
    /\ UNCHANGED <<vma_list, pt, next_page, mem, pc, call, mutex>>

\* *ptep = make_pte(alloc_page()), and the return to the caller.
walk_leaf(t) ==
    /\ pc = "idle"
    /\ walk[t].pc = "leaf"
    /\ \E a \in {alloc_page([pt |-> pt, next |-> next_page, ok |-> TRUE, page |-> 0])} :
          /\ pt' = IF a.ok THEN PtWrite(pt, walk[t].tbl, pt_index(walk[t].addr, 0),
                                        make_pte(a.page))
                   ELSE pt
          /\ next_page' = a.next
          /\ pc' = IF a.ok THEN "idle" ELSE "aborted"
    /\ walk' = [walk EXCEPT ![t].pc = "idle"]
    /\ mutex' = IF mutex = "off" THEN "off" ELSE "free"
    /\ UNCHANGED <<vma_list, mem, call>>

InitRace ==
    /\ vma_list = vma_list_type
    /\ pt = << >>
    /\ next_page = 0
    /\ mem = << >>
    /\ pc = "idle"
    /\ call = NoCall
    /\ walk = NoWalks
    /\ mutex \in {"off", "free"}

NextRace ==
    \/ \E t \in Threads, addr \in RaceAddrs : walk_begin(t, addr)
    \/ \E t \in Threads : walk_test(t)
    \/ \E t \in Threads : walk_modify(t)
    \/ \E t \in Threads : walk_descend(t)
    \/ \E t \in Threads : walk_leaf(t)

SpecRace == InitRace /\ [][NextRace]_vars

(***************************************************************************)
(* Vocabulary of the properties.                                           *)
(***************************************************************************)
AllPages == {k * page_size : k \in 0 .. (AddrSpace \div page_size) - 1}

Quiescent == pc \in {"idle", "done"}

LowerSentinel == vma(0, 0)

UpperSentinel == vma(upper_edge, upper_edge)

IsSentinel(v) == v = LowerSentinel \/ v = UpperSentinel

\* Two VMAs overlap when some address lies in both half-open ranges.
Overlap(v, w) ==
    /\ v.start < v.end /\ w.start < w.end
    /\ v.start < w.end /\ w.start < v.end

CoveredBy(list, x) == \E j \in 1 .. Len(list) : list[j].start <= x /\ x < list[j].end

SentinelsInPlace(list) ==
    /\ Len(list) >= 2
    /\ list[1] = LowerSentinel
    /\ list[Len(list)] = UpperSentinel

NonOverlapping(list) ==
    \A j, k \in 1 .. Len(list) :
        (j < k /\ ~IsSentinel(list[j]) /\ ~IsSentinel(list[k]))
            => (list[j].start < list[k].start /\ ~Overlap(list[j], list[k]))

\* evacuate has left its loop: the state in which it returns to its caller.
EvacuateEnded == pc = "evacuate" /\ call.i = Len(vma_list)

(***************************************************************************)
(* C1: at every point between calls the non-sentinel VMAs of the tracker   *)
(* are pairwise non-overlapping and ordered by start, for all sequences of *)
(* reserve, map_* and unmap calls with arbitrary arguments.                *)
(***************************************************************************)
C1_NonOverlapSorted == Quiescent => NonOverlapping(vma_list)

(***************************************************************************)
(* C2: after unmap(addr, size) with size > 0 returns, no VMA intersects    *)
(* the page-rounded range [addr, addr + size), and every address outside   *)
(* it that a VMA covered before the call is still covered.                 *)
(***************************************************************************)
C2_UnmapEvacuatesRange ==
    (pc = "done" /\ call.op = "unmap" /\ call.b > 0) =>
        LET lo == align_down(call.a)
            hi == align_down(call.a + call.b + page_size - 1)
        IN  \A x \in AllPages :
                /\ (lo <= x /\ x < hi) => ~CoveredBy(vma_list, x)
                /\ (~(lo <= x /\ x < hi) /\ CoveredBy(call.pre, x))
                       => CoveredBy(vma_list, x)

(***************************************************************************)
(* C3: after evacuate(target) no VMA of the tracker overlaps               *)
(* [target.start, target.end), and the addresses covered by the tracker    *)
(* are those covered before minus that range.                              *)
(***************************************************************************)
C3_EvacuateClearsTarget ==
    EvacuateEnded =>
        /\ \A j \in 1 .. Len(vma_list) : ~Overlap(vma_list[j], call.target)
        /\ \A x \in AllPages :
               CoveredBy(vma_list, x) <=>
                   (CoveredBy(call.pre, x)
                    /\ ~(call.target.start <= x /\ x < call.target.end))

(***************************************************************************)
(* C4: after map_anon_raw(start, end, perm) returns, for every start and   *)
(* end (start = 0 included) the tracker contains the returned VMA, whose   *)
(* range is [start rounded down, end rounded up).                          *)
(***************************************************************************)
C4_MapInsertsVma ==
    (pc = "done" /\ call.op = "map_anon_dontzero") =>
        /\ call.ret = [start |-> align_down(call.a), end |-> align_up(call.b)]
        /\ call.ret \in Elements(vma_list)

(***************************************************************************)
(* C5: on a tracker satisfying the non-overlap and sentinel invariants,    *)
(* the address a that find_hole(hint, size), size > 0, returns is at or    *)
(* above the hint, [a, a + size) overlaps no VMA and ends at or below the  *)
(* upper sentinel, and a is the smallest such address.                     *)
(***************************************************************************)
IsHole(list, a, size) ==
    /\ a + size <= upper_edge
    /\ \A j \in 1 .. Len(list) :
           ~(list[j].start < list[j].end
             /\ list[j].start < a + size /\ a < list[j].end)

HoleCandidates == AllPages \cup {x + 1 : x \in AllPages}

C5_FindHoleSmallest ==
    (pc = "done" /\ call.op = "reserve" /\ call.b > 0
       /\ SentinelsInPlace(call.pre) /\ NonOverlapping(call.pre)) =>
        LET start == IF call.a = 0 THEN mmap_base ELSE call.a
        IN  /\ call.hole >= start
            /\ IsHole(call.pre, call.hole, call.b)
            /\ \A a \in HoleCandidates :
                   (start <= a /\ a < call.hole) => ~IsHole(call.pre, a, call.b)

(***************************************************************************)
(* C6: in every state reachable by reserve, map_* and unmap calls the      *)
(* tracker holds the sentinels [0, 0) and [upper_edge, upper_edge),        *)
(* unchanged, as its lowest and its highest entry.                         *)
(***************************************************************************)
C6_SentinelsKept == SentinelsInPlace(vma_list)

(***************************************************************************)
(* C7: in every reachable state every VMA of the tracker has page-aligned  *)
(* start and end, and every non-sentinel VMA has end > start, whatever the *)
(* arguments (unaligned addresses and a size of zero included).            *)
(***************************************************************************)
C7_AlignedNonEmpty ==
    \A j \in 1 .. Len(vma_list) :
        /\ vma_list[j].start % page_size = 0
        /\ vma_list[j].end % page_size = 0
        /\ ~IsSentinel(vma_list[j]) => vma_list[j].end > vma_list[j].start

(***************************************************************************)
(* C8: a reserve(hint, size), size > 0, that returns adds exactly one VMA, *)
(* the returned one, over the hole found at or above the hint (the mmap    *)
(* base for hint 0), leaves every other VMA unchanged, and leaves the page *)
(* table and the page allocator untouched.                                 *)
(***************************************************************************)
ReserveReturns == pc = "idle" /\ pc' = "done" /\ call'.op = "reserve"

C8_ReserveAddsOne ==
    [][(ReserveReturns /\ call'.b > 0) =>
          /\ Len(vma_list') = Len(vma_list) + 1
          /\ Elements(vma_list') = Elements(vma_list) \cup {call'.ret}
          /\ call'.ret \notin Elements(vma_list)
          /\ call'.ret.start <= call'.hole /\ call'.hole + call'.b <= call'.ret.end
          /\ call'.hole >= (IF call'.a = 0 THEN mmap_base ELSE call'.a)
          /\ pt' = pt
          /\ next_page' = next_page]_vars

(***************************************************************************)
(* C10: split(vma, edge) with start < edge < end leaves the VMA as         *)
(* [start, edge) and inserts one new VMA [edge, old end); with edge at or  *)
(* outside a boundary it changes nothing; all other VMAs are unchanged.    *)
(***************************************************************************)
SplitAsClaimed(list, i, edge) ==
    LET r == split(list, i, edge)
        v == list[i]
    IN  IF v.start < edge /\ edge < v.end
        THEN /\ Len(r) = Len(list) + 1
             /\ r[i] = [start |-> v.start, end |-> edge]
             /\ Elements(r) = (Elements(list) \ {v})
                                  \cup {[start |-> v.start, end |-> edge],
                                        [start |-> edge, end |-> v.end]}
        ELSE r = list

C10_SplitPreserves ==
    (pc = "evacuate" /\ call.i # Len(vma_list)) =>
        /\ SplitAsClaimed(vma_list, call.i, call.target.end)
        /\ SplitAsClaimed(split(vma_list, call.i, call.target.end),
                          call.i, call.target.start)

(***************************************************************************)
(* C9: map_file(address, size, perm, file, offset) leaves in               *)
(* [address, address + size): (a) zeros when offset >= file size; (b) the  *)
(* file bytes from offset when offset + size <= file size; (c) the file    *)
(* bytes from offset to the end of the file, then zeros, otherwise.        *)
(***************************************************************************)
MapFileReturned == pc = "done" /\ call.op = "map_file"

C9_MapFileContents ==
    MapFileReturned =>
        \A k \in 0 .. call.b - 1 :
            LET byte == mem[call.a + k]
                fsize == Len(call.f)
            IN  /\ call.off >= fsize => byte = 0
                /\ call.off + call.b <= fsize => byte = call.f[call.off + k + 1]
                /\ (call.off < fsize /\ fsize < call.off + call.b) =>
                       byte = IF k < fsize - call.off
                              THEN call.f[call.off + k + 1] ELSE 0

\* A file-backed mapping that runs past the end of the file over a page
\* mapped before: file bytes, then the zeroed remainder.
C9_Witness ==
    /\ MapFileReturned
    /\ 0 < call.off /\ call.off < Len(call.f) /\ Len(call.f) < call.off + call.b
    /\ call.f[call.off + 1] # 0
    /\ mem[call.a] = call.f[call.off + 1]
    /\ mem[call.a + call.b - 1] = 0
    /\ Len(call.pre) > 2

(***************************************************************************)
(* Vocabulary of the page-table properties.                                *)
(***************************************************************************)
\* The tables a walk from the root reaches at each level.
RECURSIVE TablesAt(_, _)
TablesAt(t, level) ==
    IF level = nlevels - 1 THEN {pte_phys(read_cr3)}
    ELSE LET up == TablesAt(t, level + 1)
         IN  {pte_phys(t[x]) : x \in {y \in DOMAIN t :
                                          /\ y[1] \in up
                                          /\ pte_present(t[y])
                                          /\ ~pte_large(t[y])}}

\* The entries at levels 3, 2 and 1.
UpperEntries(t) ==
    LET T == TablesAt(t, 1) \cup TablesAt(t, 2) \cup TablesAt(t, 3)
    IN  [x \in {y \in DOMAIN t : y[1] \in T} |-> t[x]]

\* The pages that level-0 entries point to.
LeafPages(t) ==
    LET T == TablesAt(t, 0)
    IN  {pte_phys(t[x]) : x \in {y \in DOMAIN t : y[1] \in T}}

\* The entry the walk for addr reads at the given level, or 0 when the walk
\* ends above it at a non-present or a large entry.
RECURSIVE WalkEntry(_, _, _)
WalkEntry(t, addr, level) ==
    IF level = nlevels - 1
    THEN PtRead(t, pte_phys(read_cr3), pt_index(addr, level))
    ELSE LET up == WalkEntry(t, addr, level + 1)
         IN  IF ~pte_present(up) \/ pte_large(up) THEN 0
             ELSE PtRead(t, pte_phys(up), pt_index(addr, level))

\* addr is mapped by a present level-0 entry.
Populated(t, addr) == pte_present(WalkEntry(t, addr, 0))

PagesOf(v) == {x \in AllPages : v.start <= x /\ x < v.end}

\* The pages the allocator handed out between two of its states.
Taken(n0, n1) == {PoolBase + k * page_size : k \in n0 + 1 .. n1}

PopulateReturns == pc = "idle" /\ pc' = "done" /\ call'.op = "populate"

PopulatePageReturns == pc = "idle" /\ pc' = "done" /\ call'.op = "populate_page"

(***************************************************************************)
(* C11: when populate(vma) runs on a VMA whose pages were all populated    *)
(* before, every page-table entry at levels 3, 2 and 1 is unchanged and    *)
(* the only pages taken from the allocator are leaf pages, one per page of *)
(* the VMA.                                                                *)
(***************************************************************************)
C11_PopulateTwice ==
    [][(PopulateReturns /\ \A x \in PagesOf(call'.target) : Populated(pt, x)) =>
          /\ UpperEntries(pt') = UpperEntries(pt)
          /\ Taken(next_page, next_page') \subseteq LeafPages(pt')
          /\ next_page' - next_page = Cardinality(PagesOf(call'.target))]_vars

\* populate has returned for a two-page VMA under the boot tables' 2MB
\* entry, which had been split and had both pages populated before.
C11_Witness ==
    /\ pc = "done" /\ call.op = "populate"
    /\ Cardinality(PagesOf(call.target)) = 2
    /\ pte_phys(PtRead(pt, pte_phys(read_cr3), 0)) = BootL2
    /\ Cardinality(TablesAt(pt, 0)) = 1
    /\ next_page = 5

(***************************************************************************)
(* C12: split_large_page on a large leaf entry at level 1 replaces it by   *)
(* an intermediate table whose 512 entries reproduce, for every index i,   *)
(* the physical base of the large entry plus i * 4096 and the flags of the *)
(* large entry without the large bit; for a level-2 large entry the 512    *)
(* new entries are large entries with the base advanced by i * 2MB.        *)
(***************************************************************************)
\* The flag bits of an entry: the bits below the page-aligned address.
pte_flags(pte) == pte % page_size

\* The table that holds the entry the walk for addr reads at a level.
WalkTable(t, addr, level) ==
    IF level = nlevels - 1 THEN pte_phys(read_cr3)
    ELSE pte_phys(WalkEntry(t, addr, level + 1))

SplitLargeAsClaimed(t, n, tbl, idx, level) ==
    LET e == PtRead(t, tbl, idx)
        r == split_large_page([pt |-> t, next |-> n, ok |-> TRUE, page |-> 0],
                              tbl, idx, level)
        ne == PtRead(r.pt, tbl, idx)
    IN  r.ok =>
            /\ pte_present(ne) /\ ~pte_large(ne)
            /\ pte_phys(ne) \in Taken(n, r.next)
            /\ \A i \in 0 .. 511 :
                   LET s == PtRead(r.pt, pte_phys(ne), i)
                   IN  /\ pte_phys(s) = pte_phys(e) + i * LevelSize(level - 1)
                       /\ pte_large(s) = (level = 2)
                       /\ pte_flags(s) = IF level = 1 THEN pte_flags(e) - 128
                                         ELSE pte_flags(e)

C12_SplitLargeReproduces ==
    \A addr \in PtAddrs, level \in {1, 2} :
        LET e == WalkEntry(pt, addr, level)
        IN  (pte_present(e) /\ pte_large(e)) =>
                SplitLargeAsClaimed(pt, next_page, WalkTable(pt, addr, level),
                                    pt_index(addr, level), level)

\* populate_page has split the 1GB entry into 2MB entries and the 2MB entry
\* at 0 into 4KB entries, and large entries remain to be split.
C12_Witness ==
    /\ pte_large(WalkEntry(pt, LevelSize(2), 1))
    /\ WalkTable(pt, LevelSize(2), 1) \in Taken(0, next_page)
    /\ pte_phys(WalkEntry(pt, page_size, 0)) = 2 * LevelSize(1) + page_size
    /\ WalkTable(pt, page_size, 0) \in Taken(0, next_page)

(***************************************************************************)
(* C13: find_hole(hint, size), and so reserve, always terminates, and it   *)
(* ends in abort exactly when no address a >= hint exists such that        *)
(* [a, a + size) overlaps no VMA and ends at or below the upper sentinel;  *)
(* when it aborts, no VMA has been added to or changed in the tracker.     *)
(***************************************************************************)
ReserveEnded == call.op = "reserve" /\ pc \in {"done", "aborted"}

HolesFrom(list, start, size) ==
    {a \in HoleCandidates \cup {start} : a >= start /\ IsHole(list, a, size)}

C13_ExhaustionFatal ==
    ReserveEnded =>
        LET start == IF call.a = 0 THEN mmap_base ELSE call.a
        IN  /\ (pc = "aborted") <=> (HolesFrom(call.pre, start, call.b) = {})
            /\ (pc = "aborted") => (vma_list = call.pre)

(***************************************************************************)
(* C14: after populate_page(addr) returns, from any page-table state, the  *)
(* walk from the root for addr finds a present, non-large entry at each of *)
(* the levels 3, 2 and 1 and a present leaf entry at level 0 that points   *)
(* to a page freshly taken from the allocator; after populate(vma) this    *)
(* holds for every page-aligned address in [vma.start, vma.end), and       *)
(* distinct pages of the VMA map to distinct physical pages.               *)
(***************************************************************************)
\* The walk for addr in t goes through tables down to a leaf page that is
\* one of the pages in fresh.
MappedFresh(t, addr, fresh) ==
    /\ \A level \in 1 .. nlevels - 1 :
           /\ pte_present(WalkEntry(t, addr, level))
           /\ ~pte_large(WalkEntry(t, addr, level))
    /\ pte_present(WalkEntry(t, addr, 0))
    /\ pte_phys(WalkEntry(t, addr, 0)) \in fresh

C14_PopulateMaps ==
    [][/\ PopulatePageReturns =>
              MappedFresh(pt', call'.a, Taken(next_page, next_page'))
       /\ PopulateReturns =>
              /\ \A x \in PagesOf(call'.target) :
                     MappedFresh(pt', x, Taken(next_page, next_page'))
              /\ \A x, y \in PagesOf(call'.target) :
                     x # y => pte_phys(WalkEntry(pt', x, 0))
                                  # pte_phys(WalkEntry(pt', y, 0))]_vars

\* populate has returned for a two-page VMA that lay under the boot tables'
\* 2MB entry, and populate_page before it for an address under the 1GB entry.
C14_Witness ==
    /\ pc = "done" /\ call.op = "populate"
    /\ Cardinality(PagesOf(call.target)) = 2
    /\ \A x \in PagesOf(call.target) : Populated(pt, x)
    /\ WalkTable(pt, 0, 1) = BootL1
    /\ Populated(pt, LevelSize(2) + LevelSize(1) + page_size)

(***************************************************************************)
(* C16: populate_page(addr) on an address that lies under a large page     *)
(* changes the translation of the 4KB page of addr only: every other       *)
(* virtual page that was translated through that large entry before the    *)
(* call translates to the same physical address, with the same effective   *)
(* flags, after the call.                                                  *)
(***************************************************************************)
\* The pages under the large entry of the given level that covers addr: all
\* 512 pages of a 2MB entry; of a 1GB entry the first and the last page of
\* each of its 512 2MB parts and all pages of the part that holds addr.
PagesUnder(addr, level) ==
    LET base == addr - (addr % LevelSize(level))
        part == addr - (addr % LevelSize(1))
    IN  IF level = 1
        THEN {base + k * page_size : k \in 0 .. 511}
        ELSE {base + i * LevelSize(1) + j * page_size : i \in 0 .. 511, j \in {0, 511}}
                 \cup {part + k * page_size : k \in 0 .. 511}

C16_SplitKeepsOtherPages ==
    [][PopulatePageReturns =>
          \A level \in {1, 2} :
              (pte_present(WalkEntry(pt, call'.a, level))
                 /\ pte_large(WalkEntry(pt, call'.a, level))) =>
                  \A x \in PagesUnder(call'.a, level) \ {align_down(call'.a)} :
                      /\ translate(pt', x) = translate(pt, x)
                      /\ effective_flags(pt', x) = effective_flags(pt, x)]_vars

(***************************************************************************)
(* C17: unmap and evacuate change only the VMA tracker: they leave every   *)
(* page-table entry and the physical page allocator state unchanged, so    *)
(* each leaf page populated for a removed VMA stays present in the page    *)
(* table and is not returned to the allocator.                             *)
(***************************************************************************)
\* A step of unmap (entry, evacuate, return) or of evacuate in any caller.
UnmapOrEvacuateStep == call'.op = "unmap" \/ (pc = "evacuate" /\ pc' = "evacuate")

C17_UnmapKeepsPageTable ==
    [][UnmapOrEvacuateStep =>
          /\ pt' = pt
          /\ next_page' = next_page
          /\ \A x \in AllPages : Populated(pt, x) => Populated(pt', x)]_vars

\* unmap has returned after removing a VMA whose page is populated.
C17_Witness ==
    /\ pc = "done" /\ call.op = "unmap"
    /\ \E x \in AllPages :
           /\ CoveredBy(call.pre, x)
           /\ ~CoveredBy(vma_list, x)
           /\ Populated(pt, x)

(***************************************************************************)
(* C18: allocate_intermediate_level(entry) takes exactly one page from the *)
(* allocator, sets all 512 slots of that page to zero, and rewrites the    *)
(* entry to the page's physical address with the present, writable and     *)
(* user flags set.                                                         *)
(***************************************************************************)
AllocLevelAsClaimed(t, n, tbl, idx) ==
    LET r == allocate_intermediate_level([pt |-> t, next |-> n, ok |-> TRUE,
                                          page |-> 0], tbl, idx)
        ne == PtRead(r.pt, tbl, idx)
    IN  r.ok =>
            /\ r.next = n + 1
            /\ pte_phys(ne) \in Taken(n, n + 1)
            /\ \A i \in 0 .. 511 : PtRead(r.pt, pte_phys(ne), i) = 0
            /\ pte_present(ne) /\ pte_writable(ne) /\ pte_user(ne)

\* The walk for addr reaches the given level.
WalkReaches(t, addr, level) ==
    \/ level = nlevels - 1
    \/ /\ pte_present(WalkEntry(t, addr, level + 1))
       /\ ~pte_large(WalkEntry(t, addr, level + 1))

C18_AllocLevel ==
    \A addr \in PtAddrs, level \in 1 .. nlevels - 1 :
        (WalkReaches(pt, addr, level) /\ ~pte_present(WalkEntry(pt, addr, level))) =>
            AllocLevelAsClaimed(pt, next_page, WalkTable(pt, addr, level),
                                pt_index(addr, level))

(***************************************************************************)
(* C19: evacuate(target) terminates for every tracker state and every      *)
(* target, although it inserts (by split) and erases VMAs in the set it is *)
(* iterating over: each pre-existing VMA is split at most twice, each VMA  *)
(* produced by a split is visited, and the scan stops at the last entry of *)
(* the tracker without visiting it.                                        *)
(***************************************************************************)
\* The iterator is at an entry of the tracker behind the first.
IteratorValid == 2 <= call.i /\ call.i <= Len(vma_list)

\* A bound on the iterations left: the entries from the iterator on, plus two
\* for each place where an edge of the target still cuts one of them.
Variant ==
    (Len(vma_list) - call.i)
        + 2 * Cardinality({c \in (call.i .. Len(vma_list)) \X {call.target.start, call.target.end} :
                              vma_list[c[1]].start < c[2] /\ c[2] < vma_list[c[1]].end})

\* The cuts made in the VMAs visited within the range of w.
CutsIn(w) ==
    {c \in (1 .. Len(call.log)) \X {1, 2} :
        /\ c[2] <= call.log[c[1]].cut
        /\ w.start <= call.log[c[1]].v.start
        /\ call.log[c[1]].v.start < w.end}

Visited == {call.log[k].v : k \in 1 .. Len(call.log)}

Produced == UNION {call.log[k].made : k \in 1 .. Len(call.log)}

ScanAsClaimed ==
    /\ \A w \in Elements(call.pre) : Cardinality(CutsIn(w)) <= 2
    /\ Produced \subseteq Visited
    /\ \A w \in Visited : w.start # vma_list[Len(vma_list)].start

C19_EvacuateTerminates ==
    [][/\ pc' = "evacuate" => IteratorValid'
       /\ (pc = "evacuate" /\ pc' = "evacuate") => Variant' < Variant
       /\ EvacuateEnded' => ScanAsClaimed']_vars

(***************************************************************************)
(* C15: without mutual exclusion, two populate_page calls for addresses    *)
(* that share a not-yet-present intermediate entry can interleave so that  *)
(* both allocate an intermediate table for that same entry and the table   *)
(* installed first, with any leaf written into it, is lost; when the calls *)
(* are serialized no such state is reachable.                              *)
(***************************************************************************)
AllocatedTables == UNION {walk[t].tables : t \in Threads}

\* Two tables were allocated for one entry.
DoubleAllocated ==
    \E x, y \in AllocatedTables : x[1] = y[1] /\ x[2] = y[2] /\ x[3] # y[3]

\* A table that was installed in an entry which now points elsewhere.
LostTables == {x \in AllocatedTables : pte_phys(PtRead(pt, x[1], x[2])) # x[3]}

C15_SerializedNoDoubleAlloc ==
    mutex # "off" => (~DoubleAllocated /\ LostTables = {})

\* Unsynchronized calls have allocated two tables for one entry; the one
\* installed first is lost, and with it the leaf entry written into it.
C15_Witness ==
    /\ mutex = "off"
    /\ DoubleAllocated
    /\ \E x \in LostTables :
           /\ x[4] = 1
           /\ x[3] \notin TablesAt(pt, 0)
           /\ \E a \in RaceAddrs :
                  /\ pte_present(PtRead(pt, x[3], pt_index(a, 0)))
                  /\ pte_phys(PtRead(pt, x[3], pt_index(a, 0))) \in Taken(0, next_page)

====
